---- MODULE Spec2Model ----
(***************************************************************************)
(* Model of the flashcard reader: src/services/geminiService.ts (image     *)
(* retrieval with relay fallback, analysis and vocab clean-up, PCM         *)
(* decoding, two-part speech with a silence gap) and src/App.tsx (the UI   *)
(* state that calls them).                                                 *)
(*                                                                         *)
(* Strings that the code inspects character by character are sequences of  *)
(* UTF-16 code units.  A float sample is a pair <<num, den>> standing for  *)
(* the exact quotient num / den.                                           *)
(***************************************************************************)
EXTENDS Integers, Sequences, FiniteSets, TLC

\* ------------------------------------------------------------------ bounds
\* longest speech payload, in bytes, the speech service answers with
MaxSynthBytes == 4
\* longest byte buffer handed to decodePCM on its own
MaxPcmBytes == 4
\* longest vocab string, in code units, handed to the clean-up on its own
MaxVocabLen == 3
\* most asynchronous App calls in flight at once
MaxTasks == 2
\* most audio contexts made before the next one cannot be had
MaxContexts == 3

\* --------------------------------------------------------- program constants
SampleRate == 24000
Int16Scale == 32768
PauseDuration == 3
NumImages == 4

Null == "null"
Undefined == "undefined"

\* ------------------------------------------------------------ sample arrays
\* A Float32Array is kept as its runs: a sequence of [n, v], n >= 1 equal
\* samples v in a row, adjacent runs differing in v.  Its content is exactly
\* the array's; only the storage is compressed.
Float(num, den) == IF num = 0 THEN <<0, 1>> ELSE <<num, den>>
FloatZero == Float(0, 1)
FloatEq(x, y) == x[1] * y[2] = y[1] * x[2]

Min(x, y) == IF x <= y THEN x ELSE y

\* the array with n more samples v at its end
Push(runs, v, n) ==
    IF n <= 0 THEN runs
    ELSE IF runs # <<>> /\ runs[Len(runs)].v = v
    THEN [runs EXCEPT ![Len(runs)].n = @ + n]
    ELSE Append(runs, [n |-> n, v |-> v])

RECURSIVE Concat(_, _)
Concat(r1, r2) ==
    IF r2 = <<>> THEN r1 ELSE Concat(Push(r1, Head(r2).v, Head(r2).n), Tail(r2))

RECURSIVE DataLen(_)
\* TypedArray.length
DataLen(runs) == IF runs = <<>> THEN 0 ELSE Head(runs).n + DataLen(Tail(runs))

RECURSIVE Slice(_, _, _)
\* TypedArray.subarray(skip, skip + take)
Slice(runs, skip, take) ==
    IF take <= 0 \/ runs = <<>> THEN <<>>
    ELSE LET h == Head(runs)
         IN  IF skip >= h.n THEN Slice(Tail(runs), skip - h.n, take)
             ELSE LET k == Min(h.n - skip, take)
                  IN  Concat(<<[n |-> k, v |-> h.v]>>, Slice(Tail(runs), 0, take - k))

RECURSIVE RunsOf(_)
\* the array holding the samples of a plain sequence
RunsOf(samples) ==
    IF samples = <<>> THEN <<>>
    ELSE Concat(<<[n |-> 1, v |-> Head(samples)]>>, RunsOf(Tail(samples)))

\* sample i (from 0) of the array
At(runs, i) == Slice(runs, i, 1)[1].v

\* new Float32Array(length): zero-filled
Zeros(length) == Push(<<>>, FloatZero, length)

\* TypedArray.prototype.set(src, offset) / AudioBuffer.copyToChannel(src, 0);
\* every caller passes a src that fits
SetAt(data, src, offset) ==
    LET n == DataLen(src)
    IN  Concat(Concat(Slice(data, 0, offset), src),
               Slice(data, offset + n, DataLen(data) - offset - n))

\* ------------------------------------------------------------ audio decoding
\* Int16Array element i (from 1): two bytes, little-endian, two's complement
Int16At(bytes, i) ==
    LET u == bytes[2 * i - 1] + 256 * bytes[2 * i]
    IN  IF u >= Int16Scale THEN u - 2 * Int16Scale ELSE u

SampleOfInt16Short(v) == Float(v, Int16Scale - 1)
\* float32Data[i] = int16View[i] / 32768.0
SampleOfInt16(v) == Float(v, Int16Scale)

\* no buffer: the call threw err
NoBuffer(err) ==
    [err |-> err, numberOfChannels |-> 0, length |-> 0, sampleRate |-> 0, data |-> <<>>]

\* BaseAudioContext.createBuffer(1, length, 24000): a zero-filled mono
\* buffer.  The Web Audio API takes a length of at least 1 and throws
\* NotSupportedError for 0.
CreateBuffer(length) ==
    IF length < 1
    THEN NoBuffer("NotSupportedError")
    ELSE [err |-> Null, numberOfChannels |-> 1, length |-> length,
          sampleRate |-> SampleRate, data |-> Zeros(length)]

\* decodePCM: bytes are the char codes atob returned.  new Int16Array(buffer)
\* refuses a byte length that is not a multiple of 2.
decodePCM(bytes) ==
    IF Len(bytes) % 2 # 0
    THEN NoBuffer("RangeError")
    ELSE LET n == Len(bytes) \div 2
             float32Data == [i \in 1..n |-> SampleOfInt16(Int16At(bytes, i))]
             buffer == CreateBuffer(n)
         IN  IF buffer.err # Null
             THEN buffer
             ELSE [buffer EXCEPT !.data = SetAt(buffer.data, RunsOf(float32Data), 0)]

\* ---------------------------------------------------- two-part speech buffer
pauseSamples == PauseDuration * SampleRate

SecondOffsetNoGap(buf1) == buf1.length
\* offset of the second clip: buf1.length + pauseSamples
SecondOffset(buf1) == buf1.length + pauseSamples

\* steps 4-6 of generateSequentialPronunciation
CombineBuffers(buf1, buf2) ==
    LET totalLength == buf1.length + pauseSamples + buf2.length
        combinedBuffer == CreateBuffer(totalLength)
        withFirst == SetAt(combinedBuffer.data, buf1.data, 0)
    IN  [combinedBuffer EXCEPT !.data = SetAt(withFirst, buf2.data, SecondOffset(buf1))]

\* ------------------------------------------------------- analysis response
\* A JSON value held in a field of the parsed response: a string (its code
\* units) or an absent field.
Str(s) == [type |-> "string", s |-> s]
Undef == [type |-> "undefined", s |-> <<>>]

\* \s of a JavaScript regular expression
IsSpace(c) ==
    \/ c \in {9, 10, 11, 12, 13, 32, 160, 5760, 8232, 8233, 8239, 8287, 12288, 65279}
    \/ c \in 8192..8202

\* \d of a JavaScript regular expression
IsDigit(c) == c \in 48..57

LeadingClassNoCircled(c) == IsSpace(c) \/ IsDigit(c) \/ c = 46
\* the class [\s\d\.\u2460-\u2473]
LeadingClass(c) == IsSpace(c) \/ IsDigit(c) \/ c = 46 \/ c \in 9312..9331

RECURSIVE StripLeading(_)
\* s.replace(/^[\s\d\.\u2460-\u2473]+/, ''): the longest leading run goes
StripLeading(s) ==
    IF s # <<>> /\ LeadingClass(Head(s)) THEN StripLeading(Tail(s)) ELSE s

\* what a template literal makes of a value
TemplateString(v) ==
    IF v.type = "string" THEN v.s ELSE <<117, 110, 100, 101, 102, 105, 110, 101, 100>>

LineBreak == <<10>>

JapaneseNoBreak(cleanVocab, sentence) == Str(cleanVocab \o TemplateString(sentence))
\* japanese: `${cleanVocab}\n${parsed.sentence}`
JapaneseOf(cleanVocab, sentence) ==
    Str(cleanVocab \o LineBreak \o TemplateString(sentence))

\* lines 103-114 of analyzeJapaneseImage: the result built from the parsed
\* object, or the TypeError of calling replace on a vocab that is no string
AnalysisFromParsed(parsed) ==
    IF parsed.vocab.type # "string"
    THEN [err |-> "TypeError"]
    ELSE LET cleanVocab == StripLeading(parsed.vocab.s)
         IN  [err |-> Null,
              vocab |-> Str(cleanVocab),
              sentence |-> parsed.sentence,
              reading |-> parsed.reading,
              japanese |-> JapaneseOf(cleanVocab, parsed.sentence)]

\* ------------------------------------------------------------------- state
VARIABLES
    seqCall,    \* the generateSequentialPronunciation call: pc, arguments, outcome
    ttsReqs,    \* the speech requests it issued, in issue order
    single,     \* the generatePronunciation call: pc, its speech request, outcome
    contexts,   \* number of AudioContext objects constructed so far
    pcmIn,      \* bytes handed to decodePCM
    pcmOut,     \* what decodePCM returned or threw
    vocabIn,    \* parsed.vocab as the service returned it
    vocabOut,   \* the AnalysisResult built from it
    images,           \* App state: the loaded FlashcardImage list
    currentIndex,     \* App state: index of the shown image, -1 before the first pick
    analysis,         \* App state: <<>> for null, <<result>> otherwise
    isAnalyzing,      \* App state
    isSpeaking,       \* App state
    error,            \* App state: Null or the message shown
    audioContextRef,  \* audioContextRef.current: Null or the context
    tasks,            \* the asynchronous calls in flight, each at its await
    analysisFor,      \* history: index of the image the stored analysis was made from
    lastAnalyze,      \* history: how the last finished analyzeJapaneseImage call went
    lastPlay          \* history: the isSpeaking the last playAudio call saw, and how it went

synthVars == <<seqCall, ttsReqs, single>>
pcmVars == <<pcmIn, pcmOut>>
vocabVars == <<vocabIn, vocabOut>>
uiVars == <<images, currentIndex, analysis, isAnalyzing, isSpeaking, error,
           audioContextRef, tasks, analysisFor, lastAnalyze, lastPlay>>
vars == <<synthVars, pcmVars, vocabVars, uiVars, contexts>>

Pending == "pending"

\* no generateSequentialPronunciation call is running; decoded counts the
\* decodePCM calls it has made, combined tells whether steps 4-6 have run
SeqIdle ==
    [pc |-> "idle", vocab |-> <<>>, sentence |-> <<>>, err |-> Null,
     buffer |-> NoBuffer("none"), decoded |-> 0, combined |-> FALSE]

\* no generatePronunciation call is running
SingleIdle == [pc |-> "idle", reqs |-> <<>>, err |-> Null, buffer |-> NoBuffer("none")]

\* the parts of the state a specification leaves alone
SynthInit == seqCall = SeqIdle /\ ttsReqs = <<>> /\ single = SingleIdle
PcmIdle == pcmIn = <<>> /\ pcmOut = NoBuffer(Pending)
VocabIdle == vocabIn = <<>> /\ vocabOut = [err |-> Pending]

RECURSIVE SeqsUpTo(_, _)
\* all sequences over S of length at most n
SeqsUpTo(S, n) ==
    IF n = 0 THEN {<<>>}
    ELSE LET shorter == SeqsUpTo(S, n - 1)
         IN  shorter \cup {Append(s, x) : s \in {t \in shorter : Len(t) = n - 1}, x \in S}

\* "tango" and "reibun desu." of the spec's examples, as code units
Tango == <<21336, 35486>>
Reibun == <<20363, 25991, 12391, 12377, 12290>>

\* ------------------------------------------------------------------ the App
\* the messages, in English
RetrievalMsg == "Cannot read the image file. Possible causes: 1. invalid link 2. file permissions not public 3. cross-origin access (CORS) refused."
RecognitionMsg == "Recognition failed: make sure the image link is publicly accessible (CORS), or check the network connection."
SpeechMsg == "Speech generation failed"
NoTextMsg == "No response text generated"

\* msg.includes(<the first words of RetrievalMsg>)
IncludesCannotRead(msg) == msg = RetrievalMsg

NoAnalyze ==
    [direct |-> "none", relay |-> "none", relayBody |-> <<>>, sent |-> FALSE,
     data |-> [enc |-> "none", of |-> <<>>], service |-> "none",
     parsed |-> [vocab |-> Undef, sentence |-> Undef, reading |-> Undef],
     fetches |-> <<>>,
     outcome |-> "none", err |-> Null, result |-> <<>>]

\* no playAudio call yet
NoPlay == [speaking |-> FALSE, outcome |-> "none"]

\* the state before the mount effect has run
UiIdle ==
    /\ images = <<>>
    /\ currentIndex = -1
    /\ analysis = <<>>
    /\ isAnalyzing = FALSE
    /\ isSpeaking = FALSE
    /\ error = Null
    /\ audioContextRef = Null
    /\ tasks = <<>>
    /\ analysisFor = -1
    /\ lastAnalyze = NoAnalyze
    /\ lastPlay = NoPlay

\* VOCABULARY_DATABASE.map((url, index) => ({id: `img-${index}`, url}))
LoadedImages == [k \in 1..NumImages |-> [id |-> k - 1, url |-> k]]

\* images[index]: the list is indexed from 0
ImageAt(index) == images[index + 1]

RemoveAt(seq, i) == SubSeq(seq, 1, i - 1) \o SubSeq(seq, i + 1, Len(seq))

\* the buttons are on screen once the loading screen is gone
Rendered == ~(Len(images) = 0 /\ currentIndex = -1)

\* Button: a click reaches onClick unless the button is disabled or loading
ButtonEnabled(disabled, isLoading) == ~(disabled \/ isLoading)

\* AnalysisCard's button: disabled={isSpeaking}
CardButtonEnabled(speaking) == ~speaking

\* ---- image retrieval
ImageBodies == {<<137, 80>>, <<255, 216>>}
ErrorBody == <<60, 104>>

\* what one fetch and the reading of its body can come to: the fetch rejects,
\* the response is not ok (its body an error page), the response is ok but
\* its body cannot be read, or the response is ok and its body is the image
FetchOutcomes ==
    {[ok |-> FALSE, why |-> "network", body |-> <<>>],
     [ok |-> FALSE, why |-> "status", body |-> ErrorBody],
     [ok |-> TRUE, why |-> "body", body |-> <<>>]}
    \cup {[ok |-> TRUE, why |-> "", body |-> b] : b \in ImageBodies}

\* history: how the attempt went
Attempt(outcome) == IF outcome.ok /\ outcome.why = "" THEN "ok" ELSE "failed"

Base64(bytes) == [enc |-> "base64", of |-> bytes]
NoPayload == [enc |-> "none", of |-> <<>>]

\* FileReader.readAsDataURL: "data:<type>;base64,<content>", as its parts
\* around the comma
DataUrl(blob) == <<"data:image/jpeg;base64", Base64(blob)>>

\* blobToBase64: base64String.split(',')[1]
blobToBase64(blob) == DataUrl(blob)[2]

FetchThrowsOnNetworkOnly(outcome) == outcome.why \in {"network", "body"}
\* the try block throws: fetch or the reading of the body rejected, or
\* !response.ok
FetchThrows(outcome) == outcome.why \in {"network", "body"} \/ ~outcome.ok

RawProxyError(outcome) ==
    IF outcome.why = "status" THEN "Proxy fetch failed" ELSE "TypeError: Failed to fetch"
\* the inner catch: throw new Error(<RetrievalMsg>), whatever was caught
RetrievalErrorOf(outcome) == RetrievalMsg

\* ---- the vision-language service
AnalysisTexts ==
    {[vocab |-> Str(<<9312>> \o Tango), sentence |-> Str(Reibun), reading |-> Str(Tango)],
     [vocab |-> Str(Tango), sentence |-> Str(Reibun), reading |-> Str(Tango)],
     [vocab |-> Undef, sentence |-> Str(Reibun), reading |-> Str(Tango)],
     [vocab |-> Str(Tango), sentence |-> Undef, reading |-> Str(Tango)],
     [vocab |-> Str(Tango), sentence |-> Str(Reibun), reading |-> Undef]}

NoParsed == [vocab |-> Undef, sentence |-> Undef, reading |-> Undef]

\* what generateContent can come to: the call rejects, the response has no
\* text (none, or the empty string), its text is no JSON, its text is the
\* JSON null, or its text parses to an object
VisionResponses ==
    {[kind |-> k, parsed |-> NoParsed] : k \in {"reject", "notext", "badjson", "null"}}
    \cup {[kind |-> "parsed", parsed |-> t] : t \in AnalysisTexts}

AnalysisOfResponseParseFirst(resp) ==
    IF resp.kind = "reject" THEN [err |-> "ApiError"]
    ELSE IF resp.kind \in {"notext", "badjson"} THEN [err |-> "SyntaxError"]
    ELSE IF resp.kind = "null" THEN [err |-> "TypeError"]
    ELSE AnalysisFromParsed(resp.parsed)
\* lines 102-116 of analyzeJapaneseImage: if (response.text) JSON.parse and
\* the result, else the throw; parsed.vocab of null is a TypeError
AnalysisOfResponse(resp) ==
    IF resp.kind = "reject" THEN [err |-> "ApiError"]
    ELSE IF resp.kind = "notext" THEN [err |-> NoTextMsg]
    ELSE IF resp.kind = "badjson" THEN [err |-> "SyntaxError"]
    ELSE IF resp.kind = "null" THEN [err |-> "TypeError"]
    ELSE AnalysisFromParsed(resp.parsed)

ShownGeneric(err) == RecognitionMsg
\* the catch of handleIdentifyAndRead: the message shown for err
ShownFor(err) == IF IncludesCannotRead(err) THEN err ELSE RecognitionMsg

\* ---- playAudio
SpeakingLeftOn == TRUE
\* setIsSpeaking(false) in the catch
SpeakingAfterFailure == FALSE

SpeakingNotSet == FALSE
\* setIsSpeaking(true)
SpeakingOnStart == TRUE

\* a call at its first await; fetches lists the network requests its
\* fileToGenerativePart has issued: fetch(url) is out when the call starts
NewTask(kind, pc, img, speaking) ==
    [kind |-> kind, pc |-> pc, img |-> img, speaking |-> speaking,
     direct |-> "none", relay |-> "none", relayBody |-> <<>>,
     data |-> NoPayload, sent |-> FALSE,
     fetches |-> IF pc = "direct" THEN <<"direct">> ELSE <<>>]

\* new AudioContextClass({sampleRate: 24000}): one more context exists
ContextsAfterNew(n) == n + 1

\* new AudioContextClass({sampleRate: 24000}), made on the first use only
ContextAfterUse == IF audioContextRef = Null THEN "context" ELSE audioContextRef

\* the number of contexts after playAudio has made sure it has one
ContextsAfterUse == IF audioContextRef = Null THEN ContextsAfterNew(contexts) ELSE contexts

\* How the rest of playAudio's try block can go.  "synthesis": a speech
\* request failed; "decode": both payloads came, a context was made and
\* decoding or combining threw; "start": the buffer came back and making or
\* starting the source threw; "ok": the source was started.
SynthOutcomes == {"synthesis", "decode", "start", "ok"}

\* the mount effect: the list is loaded and a first image picked at random
Mount ==
    /\ Len(images) = 0
    /\ images' = LoadedImages
    /\ \E nextIndex \in 0..(NumImages - 1) : currentIndex' = nextIndex
    /\ UNCHANGED <<analysis, isAnalyzing, isSpeaking, error, audioContextRef, tasks,
                   analysisFor, lastAnalyze, lastPlay>>
    /\ UNCHANGED <<synthVars, pcmVars, vocabVars, contexts>>

\* pickRandomImage, from the shuffle button (never disabled)
pickRandomImage ==
    /\ Rendered
    /\ ButtonEnabled(FALSE, FALSE)
    /\ Len(images) # 0
    /\ \E nextIndex \in 0..(Len(images) - 1) :
        /\ Len(images) > 1 => nextIndex # currentIndex
        /\ Len(images) = 1 => nextIndex = 0
        /\ currentIndex' = nextIndex
    /\ analysis' = <<>>
    /\ error' = Null
    /\ analysisFor' = -1
    /\ UNCHANGED <<images, isAnalyzing, isSpeaking, audioContextRef, tasks, lastAnalyze,
                   lastPlay>>
    /\ UNCHANGED <<synthVars, pcmVars, vocabVars, contexts>>

GuardNever(speaking) == FALSE
\* if (isSpeaking) return
GuardRejects(speaking) == speaking

\* history: a playAudio call that saw speaking
PlayRecord(speaking) ==
    [speaking |-> speaking,
     outcome |-> IF GuardRejects(speaking) THEN "rejected" ELSE "started"]

\* playAudio({vocab, sentence}) up to its await, called where it is not awaited
\* (the replay paths); speaking is the isSpeaking its closure holds
PlayAudioDetached(speaking) ==
    IF GuardRejects(speaking)
    THEN /\ lastPlay' = PlayRecord(speaking)
         /\ UNCHANGED <<isSpeaking, audioContextRef, tasks, contexts>>
    ELSE /\ Len(tasks) < MaxTasks
         /\ lastPlay' = PlayRecord(speaking)
         /\ isSpeaking' = SpeakingOnStart
         /\ audioContextRef' = ContextAfterUse
         /\ contexts' = ContextsAfterUse
         /\ tasks' = Append(tasks, NewTask("P", "synth", currentIndex, speaking))

\* handleIdentifyAndRead up to its first await, from the main button
handleIdentifyAndRead ==
    /\ Rendered
    /\ ButtonEnabled(isSpeaking, isAnalyzing)
    /\ currentIndex # -1
    /\ IF analysis # <<>>
       THEN /\ PlayAudioDetached(isSpeaking)
            /\ UNCHANGED <<isAnalyzing, error>>
       ELSE /\ Len(tasks) < MaxTasks
            /\ isAnalyzing' = TRUE
            /\ error' = Null
            /\ tasks' = Append(tasks,
                    NewTask("H", "direct", ImageAt(currentIndex).url, isSpeaking))
            /\ UNCHANGED <<isSpeaking, audioContextRef, contexts, lastPlay>>
    /\ UNCHANGED <<images, currentIndex, analysis, analysisFor, lastAnalyze>>
    /\ UNCHANGED <<synthVars, pcmVars, vocabVars>>

\* onSpeak of the AnalysisCard, shown while an analysis is stored
onSpeak ==
    /\ Rendered
    /\ analysis # <<>>
    /\ CardButtonEnabled(isSpeaking)
    /\ PlayAudioDetached(isSpeaking)
    /\ UNCHANGED <<images, currentIndex, analysis, isAnalyzing, error, analysisFor,
                   lastAnalyze>>
    /\ UNCHANGED <<synthVars, pcmVars, vocabVars>>

\* analyzeJapaneseImage threw err: the catch and the finally of
\* handleIdentifyAndRead
AnalyzeFails(t, record) ==
    /\ error' = ShownFor(record.err)
    /\ isAnalyzing' = FALSE
    /\ tasks' = RemoveAt(tasks, t)
    /\ lastAnalyze' = record
    /\ UNCHANGED <<images, currentIndex, analysis, isSpeaking, audioContextRef, analysisFor,
                   contexts, lastPlay>>

RecordOf(task) ==
    [NoAnalyze EXCEPT !.direct = task.direct, !.relay = task.relay,
                      !.relayBody = task.relayBody, !.sent = task.sent,
                      !.data = task.data, !.fetches = task.fetches]

\* the generateContent request goes out with the image data
SendToService(task, data) == [task EXCEPT !.pc = "service", !.data = data, !.sent = TRUE]

AfterDirectRetried(task, outcome) ==
    IF FetchThrows(outcome)
    THEN IF Len(task.fetches) < 2
         THEN [task EXCEPT !.fetches = Append(@, "direct")]
         ELSE [task EXCEPT !.pc = "relay", !.fetches = Append(@, "relay")]
    ELSE SendToService(task, blobToBase64(outcome.body))
\* the try block of fileToGenerativePart once fetch(url) has settled: the
\* data is returned, or the catch issues fetch(proxyUrl)
AfterDirect(task, outcome) ==
    IF FetchThrows(outcome)
    THEN [task EXCEPT !.pc = "relay", !.fetches = Append(@, "relay")]
    ELSE SendToService(task, blobToBase64(outcome.body))

\* fileToGenerativePart: the direct fetch of the call settles
DirectSettles(t, outcome) ==
    /\ t \in 1..Len(tasks)
    /\ tasks[t].pc = "direct"
    /\ LET seen == [tasks[t] EXCEPT !.direct = Attempt(outcome)]
       IN  tasks' = [tasks EXCEPT ![t] = AfterDirect(seen, outcome)]
    /\ UNCHANGED <<images, currentIndex, analysis, isAnalyzing, isSpeaking, error,
                   audioContextRef, analysisFor, lastAnalyze, contexts, lastPlay>>
    /\ UNCHANGED <<synthVars, pcmVars, vocabVars>>

\* fileToGenerativePart: the fetch through the relay settles
RelaySettles(t, outcome) ==
    /\ t \in 1..Len(tasks)
    /\ tasks[t].pc = "relay"
    /\ LET seen == [tasks[t] EXCEPT !.relay = Attempt(outcome),
                                    !.relayBody = outcome.body]
       IN  IF FetchThrows(outcome)
           THEN AnalyzeFails(t, [RecordOf(seen) EXCEPT !.outcome = "error",
                                                       !.err = RetrievalErrorOf(outcome)])
           ELSE /\ tasks' = [tasks EXCEPT ![t] =
                        SendToService(seen, blobToBase64(outcome.body))]
                /\ UNCHANGED <<images, currentIndex, analysis, isAnalyzing, isSpeaking,
                               error, audioContextRef, analysisFor, lastAnalyze, contexts,
                               lastPlay>>
    /\ UNCHANGED <<synthVars, pcmVars, vocabVars>>

\* analyzeJapaneseImage: the generateContent call settles.  On a result,
\* handleIdentifyAndRead stores it and calls playAudio, awaited, with the
\* isSpeaking of the render the click came from.
ServiceSettles(t, resp) ==
    /\ t \in 1..Len(tasks)
    /\ tasks[t].pc = "service"
    /\ LET result == AnalysisOfResponse(resp)
           record == [RecordOf(tasks[t]) EXCEPT !.service = resp.kind,
                                                !.parsed = resp.parsed]
       IN  IF result.err # Null
           THEN AnalyzeFails(t, [record EXCEPT !.outcome = "error", !.err = result.err])
           ELSE /\ analysis' = <<result>>
                /\ analysisFor' = tasks[t].img - 1
                /\ lastAnalyze' = [record EXCEPT !.outcome = "ok", !.result = <<result>>]
                /\ lastPlay' = PlayRecord(tasks[t].speaking)
                /\ IF GuardRejects(tasks[t].speaking)
                   THEN /\ isAnalyzing' = FALSE
                        /\ tasks' = RemoveAt(tasks, t)
                        /\ UNCHANGED <<isSpeaking, audioContextRef, contexts>>
                   ELSE /\ isSpeaking' = SpeakingOnStart
                        /\ audioContextRef' = ContextAfterUse
                        /\ contexts' = ContextsAfterUse
                        /\ tasks' = [tasks EXCEPT ![t].pc = "synth"]
                        /\ UNCHANGED isAnalyzing
                /\ UNCHANGED <<images, currentIndex, error>>
    /\ UNCHANGED <<synthVars, pcmVars, vocabVars>>

\* playAudio: generateSequentialPronunciation settles.  It makes a context
\* of its own once both payloads are in.  With a buffer the source is
\* started; a failure there or before is caught.  An awaiting
\* handleIdentifyAndRead then runs its finally.
SynthSettles(t, outcome) ==
    /\ t \in 1..Len(tasks)
    /\ tasks[t].pc = "synth"
    /\ IF outcome = "synthesis"
       THEN UNCHANGED contexts
       ELSE /\ contexts < MaxContexts
            /\ contexts' = ContextsAfterNew(contexts)
    /\ IF outcome = "ok"
       THEN /\ tasks' = [tasks EXCEPT ![t] = [@ EXCEPT !.kind = "P", !.pc = "playing"]]
            /\ UNCHANGED <<error, isSpeaking>>
       ELSE /\ error' = SpeechMsg
            /\ isSpeaking' = SpeakingAfterFailure
            /\ tasks' = RemoveAt(tasks, t)
    /\ isAnalyzing' = IF tasks[t].kind = "H" THEN FALSE ELSE isAnalyzing
    /\ UNCHANGED <<images, currentIndex, analysis, audioContextRef, analysisFor, lastAnalyze,
                   lastPlay>>
    /\ UNCHANGED <<synthVars, pcmVars, vocabVars>>

\* source.onended
PlaybackEnds(t) ==
    /\ t \in 1..Len(tasks)
    /\ tasks[t].pc = "playing"
    /\ isSpeaking' = FALSE
    /\ tasks' = RemoveAt(tasks, t)
    /\ UNCHANGED <<images, currentIndex, analysis, isAnalyzing, error, audioContextRef,
                   analysisFor, lastAnalyze, lastPlay>>
    /\ UNCHANGED <<synthVars, pcmVars, vocabVars, contexts>>

Init == UiIdle /\ SynthInit /\ PcmIdle /\ VocabIdle /\ contexts = 0

Next ==
    \/ Mount
    \/ pickRandomImage
    \/ handleIdentifyAndRead
    \/ onSpeak
    \/ \E t \in 1..MaxTasks, outcome \in FetchOutcomes : DirectSettles(t, outcome)
    \/ \E t \in 1..MaxTasks, outcome \in FetchOutcomes : RelaySettles(t, outcome)
    \/ \E t \in 1..MaxTasks, resp \in VisionResponses : ServiceSettles(t, resp)
    \/ \E t \in 1..MaxTasks, outcome \in SynthOutcomes : SynthSettles(t, outcome)
    \/ \E t \in 1..MaxTasks : PlaybackEnds(t)

Spec == Init /\ [][Next]_vars

\* every network call settles and every started playback ends: a pending
\* promise or a playing source is not left waiting for ever
Settling ==
    /\ WF_vars(\E t \in 1..MaxTasks, outcome \in FetchOutcomes : DirectSettles(t, outcome))
    /\ WF_vars(\E t \in 1..MaxTasks, outcome \in FetchOutcomes : RelaySettles(t, outcome))
    /\ WF_vars(\E t \in 1..MaxTasks, resp \in VisionResponses : ServiceSettles(t, resp))
    /\ WF_vars(\E t \in 1..MaxTasks, outcome \in SynthOutcomes : SynthSettles(t, outcome))
    /\ WF_vars(\E t \in 1..MaxTasks : PlaybackEnds(t))

SpecLive == Init /\ [][Next]_vars /\ Settling

\* ---- playAudio on its own
\* playAudio({vocab: analysis.vocab, sentence: analysis.sentence}) called
\* from the current render whether or not its buttons take a click
PlayAudioCalled ==
    /\ Rendered
    /\ analysis # <<>>
    /\ PlayAudioDetached(isSpeaking)
    /\ UNCHANGED <<images, currentIndex, analysis, isAnalyzing, error, analysisFor,
                   lastAnalyze>>
    /\ UNCHANGED <<synthVars, pcmVars, vocabVars>>

NextPlay == Next \/ PlayAudioCalled

SpecPlay == Init /\ [][NextPlay]_vars

\* ------------------------------------------------- speech synthesis requests
SynthTexts == {Tango, Reibun}
SynthByteVals == {1, 255}
SynthPayloads == SeqsUpTo(SynthByteVals, MaxSynthBytes)

\* inlineData.data of the first part of the first candidate: missing, or a
\* string; a string is the empty one or base64 text, kept as the bytes atob
\* makes of it (no bytes at all for text that is nothing but whitespace)
NoData == [type |-> "undefined", empty |-> FALSE, bytes |-> <<>>]
EmptyData == [type |-> "string", empty |-> TRUE, bytes |-> <<>>]
AudioData(bytes) == [type |-> "string", empty |-> FALSE, bytes |-> bytes]

\* What the speech service can answer to one request: the call rejects, or a
\* response arrives with one of the data values above.
TTSResponses ==
    {[kind |-> "reject", data |-> NoData],
     [kind |-> "response", data |-> NoData],
     [kind |-> "response", data |-> EmptyData]}
    \cup {[kind |-> "response", data |-> AudioData(p)] : p \in SynthPayloads}

\* !base64
Falsy(data) == data.type = "undefined" \/ data.empty

\* fetchTTSBase64 after the await: the payload or the error thrown
fetchTTSBase64Result(resp) ==
    IF resp.kind = "reject"
    THEN [status |-> "rejected", err |-> "ApiError", base64 |-> NoData]
    ELSE IF Falsy(resp.data)
    THEN [status |-> "rejected", err |-> "No audio data returned from API", base64 |-> NoData]
    ELSE [status |-> "fulfilled", err |-> Null, base64 |-> resp.data]

\* nothing has come back yet
NoResponse == [kind |-> "none", data |-> NoData]

\* fetchTTSBase64(text) up to its await: one generateContent call is out;
\* sent counts the generateContent calls this fetchTTSBase64 call has made
NewRequest(text) ==
    [text |-> text, status |-> Pending, err |-> Null, base64 |-> NoData, order |-> 0,
     sent |-> 1, resp |-> NoResponse]

SettleWithRetry(req, resp, order) ==
    LET got == fetchTTSBase64Result(resp)
    IN  IF resp.kind = "response" /\ Falsy(resp.data) /\ req.sent < 2
        THEN [req EXCEPT !.sent = @ + 1]
        ELSE [req EXCEPT !.status = got.status, !.err = got.err,
                         !.base64 = got.base64, !.resp = resp, !.order = order]
\* a fetchTTSBase64 call whose generateContent call settles with resp, the
\* order-th to settle: it returns the payload or throws, and calls nothing again
Settle(req, resp, order) ==
    LET got == fetchTTSBase64Result(resp)
    IN  [req EXCEPT !.status = got.status, !.err = got.err,
                    !.base64 = got.base64, !.resp = resp, !.order = order]

IssuedOneAtATime(vocab, sentence) == <<NewRequest(vocab)>>
\* Promise.all([fetchTTSBase64(vocab), fetchTTSBase64(sentence)]): both calls
\* run up to their first await, so both requests are out, before anything is awaited
IssuedAtCall(vocab, sentence) == <<NewRequest(vocab), NewRequest(sentence)>>

Settled(reqs) == {i \in 1..Len(reqs) : reqs[i].status # Pending}

AwaitedByArrival(reqs) ==
    LET first == CHOOSE i \in 1..Len(reqs) : reqs[i].order = 1
        second == CHOOSE i \in 1..Len(reqs) : reqs[i].order = 2
    IN  <<reqs[first].base64, reqs[second].base64>>
\* const [base64Vocab, base64Sentence] = await Promise.all([...]): by position
AwaitedByPosition(reqs) == <<reqs[1].base64, reqs[2].base64>>

\* steps 2-6 of generateSequentialPronunciation, run once both are fulfilled
DecodeAndCombine(reqs) ==
    LET awaited == AwaitedByPosition(reqs)
        buf1 == decodePCM(awaited[1].bytes)
        buf2 == decodePCM(awaited[2].bytes)
    IN  IF buf1.err # Null
        THEN [pc |-> "rejected", err |-> buf1.err, buffer |-> NoBuffer("none"),
              decoded |-> 1, combined |-> FALSE]
        ELSE IF buf2.err # Null
        THEN [pc |-> "rejected", err |-> buf2.err, buffer |-> NoBuffer("none"),
              decoded |-> 2, combined |-> FALSE]
        ELSE [pc |-> "returned", err |-> Null, buffer |-> CombineBuffers(buf1, buf2),
              decoded |-> 2, combined |-> TRUE]

AnyFulfilled(reqs) == \E j \in 1..Len(reqs) : reqs[j].status = "fulfilled"
\* await Promise.all([...]) goes on: every promise is fulfilled
AllFulfilled(reqs) == \A j \in 1..Len(reqs) : reqs[j].status = "fulfilled"

\* generateSequentialPronunciation(vocab, sentence) up to its await; the
\* caller has one synthesis call running at a time
SeqCall(vocab, sentence) ==
    /\ seqCall.pc = "idle"
    /\ single.pc = "idle"
    /\ contexts < MaxContexts
    /\ seqCall' = [SeqIdle EXCEPT !.pc = "awaitAll", !.vocab = vocab, !.sentence = sentence]
    /\ ttsReqs' = IssuedAtCall(vocab, sentence)
    /\ UNCHANGED <<single, contexts, pcmVars, vocabVars, uiVars>>

\* one speech request settles; Promise.all rejects on the first rejection and
\* fulfils when the last request fulfils, and the code after the await runs then
TTSSettle(i, resp) ==
    /\ i \in 1..Len(ttsReqs)
    /\ ttsReqs[i].status = Pending
    /\ LET got == Settle(ttsReqs[i], resp, Cardinality(Settled(ttsReqs)) + 1)
           reqs == [ttsReqs EXCEPT ![i] = got]
           decoding == /\ seqCall.pc = "awaitAll"
                       /\ got.status # "rejected"
                       /\ AllFulfilled(reqs)
       IN  /\ ttsReqs' = reqs
           /\ contexts' = IF decoding THEN ContextsAfterNew(contexts) ELSE contexts
           /\ seqCall' =
                IF seqCall.pc # "awaitAll" THEN seqCall
                ELSE IF got.status = "rejected"
                THEN [seqCall EXCEPT !.pc = "rejected", !.err = got.err]
                ELSE IF AllFulfilled(reqs)
                THEN LET out == DecodeAndCombine(reqs)
                     IN  [seqCall EXCEPT !.pc = out.pc, !.err = out.err, !.buffer = out.buffer,
                                         !.decoded = out.decoded, !.combined = out.combined]
                ELSE seqCall
    /\ UNCHANGED <<single, pcmVars, vocabVars, uiVars>>

\* the caller has the outcome and nothing is in flight: the next call can start
SeqFinish ==
    /\ seqCall.pc \in {"returned", "rejected"}
    /\ Settled(ttsReqs) = 1..Len(ttsReqs)
    /\ seqCall' = SeqIdle
    /\ ttsReqs' = <<>>
    /\ UNCHANGED <<single, contexts, pcmVars, vocabVars, uiVars>>

\* generatePronunciation(text) up to its await
SingleCall(text) ==
    /\ single.pc = "idle"
    /\ seqCall.pc = "idle"
    /\ contexts < MaxContexts
    /\ single' = [SingleIdle EXCEPT !.pc = "await", !.reqs = <<NewRequest(text)>>]
    /\ UNCHANGED <<seqCall, ttsReqs, contexts, pcmVars, vocabVars, uiVars>>

\* its speech request settles: on a rejection the catch rethrows; on a
\* payload a context is made and the payload decoded
SingleSettle(resp) ==
    /\ single.pc = "await"
    /\ LET req == Settle(single.reqs[1], resp, 1)
           buffer == decodePCM(req.base64.bytes)
       IN  IF req.status = Pending
           THEN /\ single' = [single EXCEPT !.reqs = <<req>>]
                /\ UNCHANGED contexts
           ELSE IF req.status = "rejected"
           THEN /\ single' = [single EXCEPT !.pc = "rejected", !.reqs = <<req>>,
                                            !.err = req.err]
                /\ UNCHANGED contexts
           ELSE /\ contexts' = ContextsAfterNew(contexts)
                /\ single' =
                     IF buffer.err # Null
                     THEN [single EXCEPT !.pc = "rejected", !.reqs = <<req>>,
                                         !.err = buffer.err]
                     ELSE [single EXCEPT !.pc = "returned", !.reqs = <<req>>,
                                         !.buffer = buffer]
    /\ UNCHANGED <<seqCall, ttsReqs, pcmVars, vocabVars, uiVars>>

\* the caller has the outcome: the next call can start
SingleFinish ==
    /\ single.pc \in {"returned", "rejected"}
    /\ single' = SingleIdle
    /\ UNCHANGED <<seqCall, ttsReqs, contexts, pcmVars, vocabVars, uiVars>>

InitSynth == SynthInit /\ PcmIdle /\ VocabIdle /\ UiIdle /\ contexts = 0

NextSynth ==
    \/ \E vocab \in SynthTexts, sentence \in SynthTexts : SeqCall(vocab, sentence)
    \/ \E i \in 1..2, resp \in TTSResponses : TTSSettle(i, resp)
    \/ SeqFinish
    \/ \E text \in SynthTexts : SingleCall(text)
    \/ \E resp \in TTSResponses : SingleSettle(resp)
    \/ SingleFinish

SpecSynth == InitSynth /\ [][NextSynth]_vars

\* ------------------------------------------------------ decodePCM on its own
PcmByteVals == {0, 1, 127, 128, 255}
PcmInputs == SeqsUpTo(PcmByteVals, MaxPcmBytes)

\* decodePCM(base64Data, ctx) with atob(base64Data) = pcmIn
Decode ==
    /\ pcmOut.err = Pending
    /\ pcmOut' = decodePCM(pcmIn)
    /\ UNCHANGED <<pcmIn, synthVars, vocabVars, uiVars, contexts>>

InitPCM ==
    /\ pcmIn \in PcmInputs /\ pcmOut = NoBuffer(Pending)
    /\ SynthInit /\ VocabIdle /\ UiIdle /\ contexts = 0

NextPCM == Decode

SpecPCM == InitPCM /\ [][NextPCM]_vars

\* ------------------------------------------------- vocab clean-up on its own
\* space, ideographic space, "1", ".", circled 1, circled 20, the glyph after
\* circled 20, a kanji, a full-width "1"
VocabChars == {32, 12288, 49, 46, 9312, 9331, 9332, 21336, 65297}
\* with the spec's examples: circled 1 + tango, "1. " + tango, tango
VocabInputs ==
    SeqsUpTo(VocabChars, MaxVocabLen)
    \cup {<<9312>> \o Tango, <<49, 46, 32>> \o Tango, Tango}

\* the result analyzeJapaneseImage builds when the service returns vocabIn
Normalize ==
    /\ vocabOut.err = Pending
    /\ vocabOut' = AnalysisFromParsed(
            [vocab |-> Str(vocabIn), sentence |-> Str(Reibun), reading |-> Str(Tango)])
    /\ UNCHANGED <<vocabIn, synthVars, pcmVars, uiVars, contexts>>

\* the vocab of a result is sent through the clean-up again
Renormalize ==
    /\ vocabOut.err = Null
    /\ vocabOut.vocab.s # vocabIn
    /\ vocabIn' = vocabOut.vocab.s
    /\ vocabOut' = [err |-> Pending]
    /\ UNCHANGED <<synthVars, pcmVars, uiVars, contexts>>

InitVocab ==
    /\ vocabIn \in VocabInputs /\ vocabOut = [err |-> Pending]
    /\ SynthInit /\ PcmIdle /\ UiIdle /\ contexts = 0

NextVocab == Normalize \/ Renormalize

SpecVocab == InitVocab /\ [][NextVocab]_vars

\* ===================================================================== claims
\* the characters the claims call enumeration markers: whitespace, ASCII
\* digits, the period, the circled digits U+2460..U+2473
Marker(c) == IsSpace(c) \/ c \in 48..57 \/ c = 46 \/ c \in 9312..9331

\* what a value reads as inside a string: an absent one reads "undefined"
TextOf(v) ==
    IF v.type = "string" THEN v.s ELSE <<117, 110, 100, 101, 102, 105, 110, 101, 100>>

\* the errors analyzeJapaneseImage raises once the image data is in hand
ServiceStageErrors == {"ApiError", NoTextMsg, "SyntaxError", "TypeError"}

\* C1: when the direct fetch of a call fails and its relay fetch succeeds,
\* the request to the vision-language service carries the relay's bytes, no
\* error is shown or raised for the direct failure, and the call succeeds
\* unless the service's own answer fails it.
C1_RelayFallbackUsed ==
    /\ \A t \in 1..Len(tasks) :
        (tasks[t].sent /\ tasks[t].direct = "failed") =>
            /\ tasks[t].relay = "ok"
            /\ tasks[t].data = [enc |-> "base64", of |-> tasks[t].relayBody]
    /\ \A t \in 1..Len(tasks) :
        (tasks[t].direct = "failed" /\ tasks[t].pc \in {"relay", "service"}) => error = Null
    /\ (lastAnalyze.direct = "failed" /\ lastAnalyze.relay = "ok") =>
        /\ lastAnalyze.sent
        /\ lastAnalyze.data = [enc |-> "base64", of |-> lastAnalyze.relayBody]
        /\ lastAnalyze.outcome = "ok" \/ lastAnalyze.err \in ServiceStageErrors
        /\ (lastAnalyze.service = "parsed" /\ lastAnalyze.err # "TypeError")
            => lastAnalyze.outcome = "ok"

\* a call whose direct fetch failed has returned a result made from the
\* relay's bytes, and no error is shown
C1_Witness ==
    /\ lastAnalyze.direct = "failed"
    /\ lastAnalyze.relay = "ok"
    /\ lastAnalyze.outcome = "ok"
    /\ lastAnalyze.data = [enc |-> "base64", of |-> <<255, 216>>]
    /\ analysis = lastAnalyze.result
    /\ error = Null

\* C2: when the direct fetch and the relay fetch of a call both fail, the
\* call fails with the retrieval error and its user-facing explanation, not
\* with the error of either fetch, and no request goes to the
\* vision-language service.
C2_BothFetchesFail ==
    /\ \A t \in 1..Len(tasks) : tasks[t].relay # "failed"
    /\ lastAnalyze.relay = "failed" =>
        /\ lastAnalyze.direct = "failed"
        /\ lastAnalyze.outcome = "error"
        /\ lastAnalyze.err = RetrievalMsg
        /\ ~lastAnalyze.sent
        /\ lastAnalyze.service = "none"
        /\ lastAnalyze.result = <<>>

\* both fetches failed and the explanation is what the user sees
C2_Witness ==
    /\ lastAnalyze.direct = "failed"
    /\ lastAnalyze.relay = "failed"
    /\ lastAnalyze.err = RetrievalMsg
    /\ error = RetrievalMsg
    /\ analysis = <<>>

\* japanese is vocab, a line break, sentence, and vocab is clean
DerivedResult(r) ==
    /\ r.vocab.type = "string"
    /\ r.vocab.s = <<>> \/ ~Marker(r.vocab.s[1])
    /\ r.japanese.type = "string"
    /\ r.japanese.s = r.vocab.s \o <<10>> \o TextOf(r.sentence)

\* C8: in every result analyzeJapaneseImage returns and in every analysis
\* the App holds, japanese is the result's own cleaned vocab, one line
\* break, and its sentence.
C8_CombinedTextDerived ==
    /\ \A k \in 1..Len(analysis) : DerivedResult(analysis[k])
    /\ \A k \in 1..Len(lastAnalyze.result) : DerivedResult(lastAnalyze.result[k])

\* the App holds the result of the spec's example, its vocab cleaned
C8_Witness ==
    /\ analysis # <<>>
    /\ analysis[1].vocab.s = <<21336, 35486>>
    /\ analysis[1].sentence.s = <<20363, 25991, 12391, 12377, 12290>>
    /\ analysis[1].japanese.s = <<21336, 35486, 10, 20363, 25991, 12391, 12377, 12290>>

\* C9: whenever the App holds an analysis, it was made from the image that
\* is currently selected.
C9_AnalysisOfCurrentImage ==
    analysis # <<>> => analysisFor = currentIndex

\* the playAudio calls past their guard: awaiting the speech, or playing
Speaking == {t \in 1..Len(tasks) : tasks[t].pc \in {"synth", "playing"}}

Int16Value(lo, hi) == ((lo + 256 * hi + 32768) % 65536) - 32768

\* the samples a byte buffer of even length stands for
PcmSamples(bytes) ==
    [i \in 1..(Len(bytes) \div 2) |-> <<Int16Value(bytes[2 * i - 1], bytes[2 * i]), 32768>>]

SamplesEq(runs, samples) ==
    /\ DataLen(runs) = Len(samples)
    /\ \A i \in 1..Len(samples) : FloatEq(At(runs, i - 1), samples[i])

AllZero(runs) == \A k \in 1..Len(runs) : runs[k].v[1] = 0

\* number of samples request i's payload holds
SamplesIn(i) == Len(ttsReqs[i].base64.bytes) \div 2

\* C3: every call of generateSequentialPronunciation(vocab, sentence) has
\* exactly two speech requests out, the first for vocab and the second for
\* sentence, from the moment it is called: so both are out while neither has
\* settled, and no request is added afterwards.
C3_TwoRequestsBeforeAnySettles ==
    /\ seqCall.pc = "idle" => Len(ttsReqs) = 0
    /\ seqCall.pc # "idle" =>
        /\ Len(ttsReqs) = 2
        /\ ttsReqs[1].text = seqCall.vocab
        /\ ttsReqs[2].text = seqCall.sentence
    /\ Settled(ttsReqs) # {} => Len(ttsReqs) = 2

\* one request has settled while the other is still out
C3_Witness ==
    /\ seqCall.pc = "awaitAll"
    /\ Cardinality(Settled(ttsReqs)) = 1
    /\ Len(ttsReqs) = 2

\* C4: whichever response arrives first, the returned buffer begins with the
\* samples of the vocab response and ends with the samples of the sentence
\* response.
C4_OrderByArgumentPosition ==
    seqCall.pc = "returned" =>
        LET a == SamplesIn(1)
            b == SamplesIn(2)
            data == seqCall.buffer.data
        IN  /\ SamplesEq(Slice(data, 0, a), PcmSamples(ttsReqs[1].base64.bytes))
            /\ SamplesEq(Slice(data, DataLen(data) - b, b),
                         PcmSamples(ttsReqs[2].base64.bytes))

\* a buffer was returned although the sentence response arrived first, and
\* the two responses differ
C4_Witness ==
    /\ seqCall.pc = "returned"
    /\ ttsReqs[2].order = 1
    /\ ttsReqs[1].order = 2
    /\ ttsReqs[1].base64.bytes # ttsReqs[2].base64.bytes
    /\ SamplesIn(1) # SamplesIn(2)

\* C5 as stated: two clips of a and b samples, a = 0 or b = 0 included, are
\* sequenced into a buffer of a + 3 * 24000 + b samples whose samples
\* [a, a + 3 * 24000) are all 0.
C5_AsStated ==
    (/\ Len(ttsReqs) = 2
     /\ \A i \in 1..2 : ttsReqs[i].status = "fulfilled" /\ Len(ttsReqs[i].base64.bytes) % 2 = 0)
    => /\ seqCall.pc = "returned"
       /\ seqCall.buffer.length = SamplesIn(1) + 3 * 24000 + SamplesIn(2)
       /\ AllZero(Slice(seqCall.buffer.data, SamplesIn(1), 3 * 24000))

\* C5, amended: every buffer the sequencing returns is made of two clips of
\* a >= 1 and b >= 1 samples, is a + 3 * 24000 + b samples long and is 0 at
\* every index in [a, a + 3 * 24000); a clip of 0 samples never reaches the
\* sequencing, the call fails instead.
C5_GapOfSilence ==
    /\ seqCall.pc = "returned" =>
        LET a == SamplesIn(1)
            b == SamplesIn(2)
            buffer == seqCall.buffer
            gap == Slice(buffer.data, a, 3 * 24000)
        IN  /\ a >= 1 /\ b >= 1
            /\ buffer.length = a + 3 * 24000 + b
            /\ DataLen(buffer.data) = buffer.length
            /\ DataLen(gap) = 3 * 24000
            /\ AllZero(gap)
    /\ (/\ Len(ttsReqs) = 2
        /\ \A i \in 1..2 : ttsReqs[i].status = "fulfilled"
        /\ \E i \in 1..2 : Len(ttsReqs[i].base64.bytes) = 0)
       => seqCall.pc = "rejected"

\* a buffer was returned for clips of 1 and 2 samples
C5_Witness ==
    /\ seqCall.pc = "returned"
    /\ SamplesIn(1) = 1
    /\ SamplesIn(2) = 2

\* C6 as stated: every byte buffer of even length 2n, n = 0 included, decodes
\* to a buffer of n samples.
C6_AsStated ==
    (pcmOut.err # Pending /\ Len(pcmIn) % 2 = 0)
    => /\ pcmOut.err = Null
       /\ pcmOut.length = Len(pcmIn) \div 2

\* C6, amended: a byte buffer of even length 2n with n >= 1 decodes to a
\* one-channel 24000 Hz buffer of exactly n samples, sample i being the signed
\* little-endian 16-bit integer of bytes 2i, 2i+1 divided by 32768, each within
\* [-1, 1]; the empty buffer (n = 0) does not decode, the decoder throws.
C6_DecodeExact ==
    (pcmOut.err # Pending /\ Len(pcmIn) % 2 = 0) =>
        IF Len(pcmIn) = 0 THEN pcmOut.err = "NotSupportedError"
        ELSE LET n == Len(pcmIn) \div 2
             IN  /\ pcmOut.err = Null
                 /\ pcmOut.length = n
                 /\ pcmOut.numberOfChannels = 1
                 /\ pcmOut.sampleRate = 24000
                 /\ SamplesEq(pcmOut.data, PcmSamples(pcmIn))
                 /\ \A i \in 0..(n - 1) :
                        LET x == At(pcmOut.data, i)
                        IN  x[2] > 0 /\ -x[2] <= x[1] /\ x[1] <= x[2]

\* a buffer of two samples, the first the most negative one, was decoded
C6_Witness ==
    /\ pcmOut.err = Null
    /\ pcmIn = <<0, 128, 255, 127>>
    /\ pcmOut.length = 2

\* C7: the vocab of a result starts with no whitespace, ASCII digit, period
\* or circled digit U+2460..U+2473; it is the service's vocab without its
\* longest leading run of such characters, so a vocab with no leading marker
\* is unchanged, and cleaning a cleaned vocab changes nothing.
C7_VocabNormalized ==
    vocabOut.err # Pending =>
        /\ vocabOut.err = Null
        /\ LET out == vocabOut.vocab.s
               k == Len(vocabIn) - Len(out)
           IN  /\ out = <<>> \/ ~Marker(out[1])
               /\ k >= 0
               /\ out = SubSeq(vocabIn, k + 1, Len(vocabIn))
               /\ \A i \in 1..k : Marker(vocabIn[i])
               /\ (vocabIn = <<>> \/ ~Marker(vocabIn[1])) => out = vocabIn
               /\ StripLeading(out) = out
               /\ vocabIn \in {<<9312, 21336, 35486>>, <<49, 46, 32, 21336, 35486>>,
                               <<21336, 35486>>}
                    => out = <<21336, 35486>>

\* "1. tango" was cleaned to "tango"
C7_Witness ==
    /\ vocabOut.err = Null
    /\ vocabIn = <<49, 46, 32, 21336, 35486>>
    /\ vocabOut.vocab.s = <<21336, 35486>>

\* the parsed text is an object with string fields vocab, sentence, reading
SchemaValid(parsed) ==
    /\ parsed.vocab.type = "string"
    /\ parsed.sentence.type = "string"
    /\ parsed.reading.type = "string"

\* C11 as stated: whenever the service returns no text, or text that does
\* not parse as an object with string fields vocab, sentence and reading,
\* the call fails and returns no result.
C11_AsStated ==
    (\/ lastAnalyze.service \in {"notext", "badjson", "null"}
     \/ lastAnalyze.service = "parsed" /\ ~SchemaValid(lastAnalyze.parsed))
    => /\ lastAnalyze.outcome = "error"
       /\ lastAnalyze.result = <<>>

\* C11, amended: the call fails and returns no result whenever the service
\* returns no text (then with the no-response-text error), text that is no
\* JSON, or JSON whose vocab is no string; an object whose vocab is a string
\* is returned as a result, its sentence and reading taken over as they are,
\* missing ones included.
C11_AnalysisFailures ==
    /\ lastAnalyze.service = "notext" =>
        /\ lastAnalyze.outcome = "error"
        /\ lastAnalyze.err = NoTextMsg
        /\ lastAnalyze.result = <<>>
    /\ (\/ lastAnalyze.service \in {"badjson", "null"}
        \/ lastAnalyze.service = "parsed" /\ lastAnalyze.parsed.vocab.type # "string")
       => /\ lastAnalyze.outcome = "error"
          /\ lastAnalyze.err \in {"SyntaxError", "TypeError"}
          /\ lastAnalyze.result = <<>>
    /\ (lastAnalyze.service = "parsed" /\ lastAnalyze.parsed.vocab.type = "string")
       => /\ lastAnalyze.outcome = "ok"
          /\ Len(lastAnalyze.result) = 1
          /\ lastAnalyze.result[1].sentence = lastAnalyze.parsed.sentence
          /\ lastAnalyze.result[1].reading = lastAnalyze.parsed.reading
    /\ lastAnalyze.outcome = "error" => lastAnalyze.result = <<>>

\* the service answered without text: the call failed with the
\* no-response-text error, no analysis is stored and the failure is shown
C11_Witness ==
    /\ lastAnalyze.service = "notext"
    /\ lastAnalyze.err = NoTextMsg
    /\ lastAnalyze.result = <<>>
    /\ analysis = <<>>
    /\ error = RecognitionMsg

\* the fetchTTSBase64 calls made so far by the running calls
Synthesized ==
    {ttsReqs[i] : i \in 1..Len(ttsReqs)} \cup {single.reqs[i] : i \in 1..Len(single.reqs)}

\* the first part of the first candidate carries an audio payload
HasPayload(resp) ==
    resp.kind = "response" /\ resp.data.type = "string" /\ ~resp.data.empty

\* C12: every fetchTTSBase64 call sends one request to the speech service
\* and no more; once it has its response, it has failed with the
\* no-audio-data error if the response carries no payload, and has returned
\* exactly the payload if it carries one.  A generatePronunciation call makes
\* one such call, and fails with its error at once.
C12_OneRequestNoRetry ==
    /\ \A r \in Synthesized :
        /\ r.sent = 1
        /\ r.status = Pending <=> r.resp.kind = "none"
        /\ (r.resp.kind = "response" /\ ~HasPayload(r.resp)) =>
            /\ r.status = "rejected"
            /\ r.err = "No audio data returned from API"
        /\ HasPayload(r.resp) =>
            /\ r.status = "fulfilled"
            /\ r.base64 = r.resp.data
    /\ single.pc # "idle" => Len(single.reqs) = 1
    /\ (single.pc # "idle" /\ single.reqs[1].status = "rejected") =>
        /\ single.pc = "rejected"
        /\ single.err = single.reqs[1].err

\* a generatePronunciation call has failed on a response without a payload,
\* having sent its one request
C12_Witness ==
    /\ single.pc = "rejected"
    /\ single.reqs[1].resp.kind = "response"
    /\ single.reqs[1].resp.data.type = "undefined"
    /\ single.reqs[1].sent = 1
    /\ single.err = "No audio data returned from API"

\* C13: at most one audio context is ever constructed, the one playAudio
\* keeps in audioContextRef, and nothing is constructed once it exists.
C13_SingleContext ==
    /\ contexts <= 1
    /\ audioContextRef # Null => contexts = 1

\* the network requests of a fileToGenerativePart call and how its two
\* attempts went, as the claim orders them
InOrder(c) ==
    /\ c.fetches \in {<<"direct">>, <<"direct", "relay">>}
    /\ Len(c.fetches) = 2 <=> c.direct = "failed"
    /\ c.direct = "ok" => c.fetches = <<"direct">> /\ c.relay = "none"
    /\ c.relay # "none" => c.fetches = <<"direct", "relay">>

\* C14: a fileToGenerativePart call has its direct request out from the
\* start and its relay request out only once the direct attempt has failed;
\* after a direct success it has made one request and none to the relay; it
\* never makes more than two, one direct and one through the relay.
C14_TransportsInOrder ==
    /\ \A t \in 1..Len(tasks) : tasks[t].kind = "H" => InOrder(tasks[t])
    /\ \A t \in 1..Len(tasks) : tasks[t].pc = "direct" => tasks[t].fetches = <<"direct">>
    /\ lastAnalyze.outcome # "none" => InOrder(lastAnalyze)

\* a call is over whose direct and relay fetches both failed, after two
\* requests
C14_Witness ==
    /\ lastAnalyze.direct = "failed"
    /\ lastAnalyze.relay = "failed"
    /\ lastAnalyze.fetches = <<"direct", "relay">>
    /\ lastAnalyze.outcome = "error"

\* the speech requests of the running call that have failed
Rejected == {i \in 1..Len(ttsReqs) : ttsReqs[i].status = "rejected"}

\* C15: decodePCM and the combining have run only if both speech requests
\* were fulfilled; if one has failed, whether it settled first or second,
\* the call has failed with the error of a failed request (the first to
\* fail), nothing was decoded or combined, and there is no buffer.
C15_DecodeAfterBoth ==
    /\ (seqCall.decoded > 0 \/ seqCall.combined \/ seqCall.pc = "returned") =>
        \A i \in 1..2 : ttsReqs[i].status = "fulfilled"
    /\ Rejected # {} =>
        LET first == CHOOSE i \in Rejected : \A j \in Rejected : ttsReqs[i].order <= ttsReqs[j].order
        IN  /\ seqCall.pc = "rejected"
            /\ seqCall.err = ttsReqs[first].err
            /\ seqCall.decoded = 0
            /\ ~seqCall.combined
            /\ seqCall.buffer.err # Null
    /\ seqCall.pc = "awaitAll" =>
        seqCall.decoded = 0 /\ ~seqCall.combined /\ seqCall.buffer.err # Null

\* the vocab request was fulfilled first, then the sentence request failed:
\* the call has failed with that error and has decoded nothing
C15_Witness ==
    /\ seqCall.pc = "rejected"
    /\ ttsReqs[1].status = "fulfilled" /\ ttsReqs[1].order = 1
    /\ ttsReqs[2].status = "rejected" /\ ttsReqs[2].order = 2
    /\ seqCall.err = ttsReqs[2].err
    /\ seqCall.decoded = 0

\* this step ends an analyzeJapaneseImage call in an error
AnalysisFailed ==
    /\ \E t \in 1..Len(tasks) :
        tasks[t].pc \in {"relay", "service"} /\ tasks' = RemoveAt(tasks, t)
    /\ lastAnalyze'.outcome = "error"

\* this step ends a playAudio call that was awaiting its speech, without a
\* playback: the speech requests, the decoding or the start failed
SynthesisFailed ==
    \E t \in 1..Len(tasks) : tasks[t].pc = "synth" /\ tasks' = RemoveAt(tasks, t)

\* C16: the step in which a core call fails is the step in which the App
\* shows its message and ends the call: the retrieval error's own
\* explanation after both fetches failed, the recognition message after any
\* other analysis failure, the speech message after a failure in speech
\* requests, decoding or playback start.
C16_FailuresShown ==
    [][/\ AnalysisFailed =>
            /\ error' = IF lastAnalyze'.relay = "failed"
                        THEN lastAnalyze'.err
                        ELSE RecognitionMsg
            /\ lastAnalyze'.relay = "failed" => lastAnalyze'.err = RetrievalMsg
            /\ error' # Null
            /\ Len(tasks') = Len(tasks) - 1
            /\ ~isAnalyzing'
       /\ SynthesisFailed =>
            /\ error' = SpeechMsg
            /\ ~isSpeaking'
            /\ ~isAnalyzing'
      ]_vars

\* the speech of a stored analysis has failed and the speech message is shown
C16_Witness ==
    /\ error = SpeechMsg
    /\ analysis # <<>>
    /\ lastAnalyze.outcome = "ok"
    /\ tasks = <<>>
    /\ ~isSpeaking

\* C17: when every network call settles and every started playback ends,
\* isAnalyzing, once true, becomes false again, and so does isSpeaking,
\* whichever way the fetches, the analysis, the speech requests, the
\* decoding and the start of the playback go.
C17_BusyFlagsClear ==
    /\ isAnalyzing ~> ~isAnalyzing
    /\ isSpeaking ~> ~isSpeaking

\* both flags are up: the analysis has come and its speech is awaited
C17_Witness ==
    /\ isAnalyzing
    /\ isSpeaking
    /\ Len(tasks) = 1
    /\ tasks[1].kind = "H"
    /\ tasks[1].pc = "synth"

\* this step is a playAudio call that its isSpeaking guard turns away
PlayRejected == lastPlay' # lastPlay /\ lastPlay'.outcome = "rejected"

\* C18: a playAudio call that sees isSpeaking true is turned away by the
\* guard and changes nothing of the App's state or of the calls in flight;
\* a playAudio call whose speech fails leaves the stored analysis, the
\* selected image and the image list as they were, shows the speech message
\* and not the recognition message, and clears isSpeaking (the awaiting
\* handleIdentifyAndRead, if any, clears isAnalyzing).
C18_PlaybackLeavesAnalysis ==
    [][/\ lastPlay'.speaking => lastPlay'.outcome = "rejected"
       /\ PlayRejected =>
            /\ UNCHANGED <<images, currentIndex, analysis, isAnalyzing, isSpeaking, error,
                           audioContextRef, tasks, analysisFor, lastAnalyze>>
            /\ UNCHANGED <<synthVars, pcmVars, vocabVars, contexts>>
       /\ SynthesisFailed =>
            /\ UNCHANGED <<images, currentIndex, analysis, audioContextRef, analysisFor,
                           lastAnalyze, lastPlay>>
            /\ error' = SpeechMsg
            /\ error' # RecognitionMsg
            /\ ~isSpeaking'
            /\ isAnalyzing' => isAnalyzing
      ]_vars

\* a playAudio call made during a playback has been turned away, the
\* analysis still stored
C18_Witness ==
    /\ lastPlay = [speaking |-> TRUE, outcome |-> "rejected"]
    /\ isSpeaking
    /\ analysis # <<>>
    /\ Len(tasks) = 1
    /\ tasks[1].pc = "playing"

====
